---- MODULE Spec2Model ----
(***************************************************************************)
(* Model of lockfile.py: LockFile (flock-based advisory lock on a          *)
(* lock-file), the lockfile() context manager with its retry loop, and     *)
(* the lockfunc() decorator.                                               *)
(*                                                                         *)
(* Every session is one invocation of lockfile() (directly, kind "with",   *)
(* or through a lockfunc wrapper, kind "func").  flock locks belong to     *)
(* the open file description, so two handles of the same process exclude   *)
(* each other exactly as handles of different processes do: a session is   *)
(* a process or a nested handle alike.  open, flock, os.remove and         *)
(* file.close are separate steps that interleave freely.                   *)
(***************************************************************************)
EXTENDS Integers, FiniteSets, Sequences, TLC

\* ------------------------------------------------------------- bounds
NumSessions == 2
MaxRetriesBound == 1
MaxUserCloses == 1

Sessions == 1..NumSessions
Inodes == 1..NumSessions
NoIno == 0
\* The file of the protected resource itself, when it exists; never an inode
\* that open() hands out for a new lock-file.
ResourceIno == NumSessions + 1

\* ------------------------------------------------------------ constants
None == "None"
ResourcePath == "P"
\* A path in a directory that does not exist: open(path + '.lock', 'a') fails.
UnopenablePath == "missing/Q"
SomeError == "LockTimeout"
Marker == "marker"
FuncResult == "In my function"

_shared == "SH"
_exclusive == "EX"
Unlocked == "UN"

\* LockFile.__init__(path, shared=False, cleanup=True): lockfile() never
\* passes cleanup, so every lock it builds has the default.
CleanupDefault == TRUE

VARIABLES
    fs,         \* the directory: path name -> inode it names, NoIno if absent
    fd,         \* per session: inode its open handle (LockFile._f / f) is on
    lk,         \* per session: flock mode its open file description holds
    pc,         \* per session: position in lockfile()/LockFile code
    kind,       \* "with": lockfile() used directly; "func": lockfunc wrapper
    shared,     \* lockfile(shared=...)
    max_tries,  \* lockfile local max_tries = 1 + max_retries
    error,      \* lockfile(error=...)
    path,       \* lockfile local path after path = path + '.lock'
    tries,      \* lockfile local tries
    lock,       \* lockfile local lock is not None
    ret,        \* who called LockFile.close: "block" or "finally"
    res,        \* what the scope delivers to its caller (pending until done)
    attempts,   \* LockFile constructions made by this invocation
    sleeps,     \* time.sleep calls made by this invocation
    closeRuns,  \* lock.close() calls made by lockfile()'s finally clause
    userCloses, \* lock.close() calls made by the protected block itself
    blockRuns,  \* times the protected block was entered
    funcRuns,   \* times the wrapped function was invoked
    closedOnce, \* a LockFile.close call of this lock ran to its end
    noopCloses  \* LockFile.close calls that found self._f already None

osVars == <<fs, fd, lk>>
cfgVars == <<kind, shared, max_tries, error, path>>
ghostVars == <<attempts, sleeps, closeRuns, userCloses, blockRuns, funcRuns, closedOnce,
               noopCloses>>
vars == <<fs, fd, lk, pc, kind, shared, max_tries, error, path, tries, lock, ret, res,
          attempts, sleeps, closeRuns, userCloses, blockRuns, funcRuns, closedOnce,
          noopCloses>>

\* ------------------------------------------------------- pure helpers

\* Python truth value of the error argument (`if error and ...`).
Truthy(e) == e # None

\* lockfunc.wrapper: _path = path or args[0]
EffectivePath(cfgPath, arg0) == IF cfgPath # None THEN cfgPath ELSE arg0

\* Variant that locks the protected path itself.
LockPathOfSame(p) == p

\* lockfile: path = path + '.lock'
LockPathOf(p) == p \o ".lock"

\* lockfile: max_tries = 1 + max_retries
MaxTries(max_retries) == 1 + max_retries

\* lockfile: while lock is None and tries <= max_tries
LoopCond(haveLock, t, mt) == (~haveLock) /\ t <= mt

\* Variant that sleeps after every failed attempt.
SleepCondAlways(t, mt) == TRUE

\* lockfile: if tries <= max_tries: time.sleep(retry_delay)
SleepCond(t, mt) == t <= mt

\* lockfile: if error and lock is None: raise error
RaiseCond(e, haveLock) == Truthy(e) /\ ~haveLock

\* Variant without the release in the finally clause.
FinallyClosesNever(haveLock) == FALSE

\* lockfile: finally: if lock is not None: lock.close()
FinallyCloses(haveLock) == haveLock

\* flock(2): two locks on one file conflict unless both are shared.
Conflicts(m1, m2) == m1 = _exclusive \/ m2 = _exclusive

\* flock(2), LOCK_NB: the request of session s for mode m on its open file is
\* granted iff no other open file description holds a conflicting lock on the
\* same inode.
FlockGranted(s, m) ==
    \A o \in Sessions \ {s} :
        (fd[o] = fd[s] /\ lk[o] # Unlocked) => ~Conflicts(m, lk[o])

\* open(path, 'a') on an absent path creates a file: the lowest inode that is
\* neither named by a path nor open anywhere.
InUse(i) == (\E n \in DOMAIN fs : fs[n] = i) \/ (\E o \in Sessions : fd[o] = i)
FreshInode == CHOOSE i \in Inodes : ~InUse(i) /\ \A j \in Inodes : j < i => InUse(j)

\* Variant that raises LockError without closing the handle.
CloseOnLockErrorSkipped(f) == f

\* LockFile.__init__: except IOError: f.close(); raise LockError(...)
CloseOnLockError(f) == NoIno

\* Variant without the `if self._f is not None` guard.
CloseBranchUnguarded(open, cleanup, sh, back) ==
    IF cleanup /\ sh THEN "upgrade"
    ELSE IF cleanup THEN "remove"
    ELSE "fclose"

\* LockFile.close: which step follows `if self._f is not None`.
CloseBranch(open, cleanup, sh, back) ==
    IF ~open THEN back
    ELSE IF cleanup /\ sh THEN "upgrade"
    ELSE IF cleanup THEN "remove"
    ELSE "fclose"

\* Where control goes when LockFile.close returns to its caller.
AfterClose(caller) == IF caller = "block" THEN "block" ELSE "done"

\* What lines 88-91 of lockfile() do once the loop is over: raise the
\* configured error (control passes to the finally clause) or yield.
EnterPc(e, haveLock) == IF RaiseCond(e, haveLock) THEN "finally" ELSE "block"
EnterRes(e, haveLock) == IF RaiseCond(e, haveLock) THEN "configError" ELSE "pending"

\* Where the except clause of the retry loop leaves control: back to the
\* top of the loop for another LockFile(...), or past the loop.
RetryPc(e, t, mt) == IF LoopCond(FALSE, t, mt) THEN "open" ELSE EnterPc(e, FALSE)
RetryRes(e, t, mt) == IF LoopCond(FALSE, t, mt) THEN "pending" ELSE EnterRes(e, FALSE)

Names == {ResourcePath, LockPathOf(ResourcePath)}

\* open(path, 'a'), line 24: succeeds (creating the file if need be) unless
\* the directory of the path is missing; then it raises OSError.
Openable(p) == p # LockPathOf(UnopenablePath)

\* lockfile, line 83: except LockError.
Catches(exc) == exc = "LockError"

\* An exception exc leaves LockFile(path, shared=shared) at line 82 with the
\* locals tries = t, max_tries = mt: the except clause (lines 83-86) and the
\* loop test handle it, or it leaves lockfile().
ExceptTries(exc, t) == IF Catches(exc) THEN t + 1 ELSE t
ExceptSleeps(exc, t, mt) == IF Catches(exc) /\ SleepCond(t + 1, mt) THEN 1 ELSE 0
ExceptPc(exc, e, t, mt) == IF Catches(exc) THEN RetryPc(e, t + 1, mt) ELSE "done"
ExceptRes(exc, e, t, mt) == IF Catches(exc) THEN RetryRes(e, t + 1, mt) ELSE exc

\* --------------------------------------------------------------- Init
Init ==
    /\ \E r \in {NoIno, ResourceIno} :
          fs = [n \in Names |-> IF n = ResourcePath THEN r ELSE NoIno]
    /\ fd = [s \in Sessions |-> NoIno]
    /\ lk = [s \in Sessions |-> Unlocked]
    /\ pc = [s \in Sessions |-> "idle"]
    /\ kind = [s \in Sessions |-> "with"]
    /\ shared = [s \in Sessions |-> FALSE]
    /\ max_tries = [s \in Sessions |-> 1]
    /\ error = [s \in Sessions |-> None]
    /\ path = [s \in Sessions |-> None]
    /\ tries = [s \in Sessions |-> 1]
    /\ lock = [s \in Sessions |-> FALSE]
    /\ ret = [s \in Sessions |-> "finally"]
    /\ res = [s \in Sessions |-> "pending"]
    /\ attempts = [s \in Sessions |-> 0]
    /\ sleeps = [s \in Sessions |-> 0]
    /\ closeRuns = [s \in Sessions |-> 0]
    /\ userCloses = [s \in Sessions |-> 0]
    /\ blockRuns = [s \in Sessions |-> 0]
    /\ funcRuns = [s \in Sessions |-> 0]
    /\ closedOnce = [s \in Sessions |-> FALSE]
    /\ noopCloses = [s \in Sessions |-> 0]

\* ------------------------------------------------------------ actions

\* lockfile(path, max_retries, retry_delay, shared, error) is entered, directly
\* or from lockfunc's wrapper (_path = path or args[0]); lines 75-80.
Call(s) ==
    /\ pc[s] = "idle"
    /\ \E k \in {"with", "func"}, sh \in BOOLEAN, mr \in 0..MaxRetriesBound,
          e \in {None, SomeError}, arg0 \in {ResourcePath, UnopenablePath},
          cfgPath \in {None, ResourcePath, UnopenablePath} :
        /\ (k = "with") => cfgPath = arg0
        /\ kind' = [kind EXCEPT ![s] = k]
        /\ shared' = [shared EXCEPT ![s] = sh]
        /\ max_tries' = [max_tries EXCEPT ![s] = MaxTries(mr)]
        /\ error' = [error EXCEPT ![s] = e]
        /\ path' = [path EXCEPT ![s] = LockPathOf(EffectivePath(cfgPath, arg0))]
        /\ pc' = [pc EXCEPT ![s] = RetryPc(e, 1, MaxTries(mr))]
        /\ res' = [res EXCEPT ![s] = RetryRes(e, 1, MaxTries(mr))]
    /\ tries' = [tries EXCEPT ![s] = 1]
    /\ lock' = [lock EXCEPT ![s] = FALSE]
    /\ UNCHANGED <<osVars, ret, ghostVars>>

\* LockFile.__init__, line 24: f = open(path, 'a').
Open(s) ==
    /\ pc[s] = "open"
    /\ Openable(path[s])
    /\ IF fs[path[s]] = NoIno
       THEN /\ fs' = [fs EXCEPT ![path[s]] = FreshInode]
            /\ fd' = [fd EXCEPT ![s] = FreshInode]
       ELSE /\ fs' = fs
            /\ fd' = [fd EXCEPT ![s] = fs[path[s]]]
    /\ attempts' = [attempts EXCEPT ![s] = @ + 1]
    /\ pc' = [pc EXCEPT ![s] = "flock"]
    /\ UNCHANGED <<lk, cfgVars, tries, lock, ret, res,
                   sleeps, closeRuns, userCloses, blockRuns, funcRuns, closedOnce, noopCloses>>

\* LockFile.__init__, line 24: open raises OSError.  The call is outside the
\* try of lines 25-29, so the error leaves LockFile.__init__ as it is and
\* meets the except clause of lockfile (line 83).
OpenFail(s) ==
    /\ pc[s] = "open"
    /\ ~Openable(path[s])
    /\ attempts' = [attempts EXCEPT ![s] = @ + 1]
    /\ tries' = [tries EXCEPT ![s] = ExceptTries("OpenError", @)]
    /\ sleeps' = [sleeps EXCEPT ![s] = @ + ExceptSleeps("OpenError", tries[s], max_tries[s])]
    /\ pc' = [pc EXCEPT ![s] = ExceptPc("OpenError", error[s], tries[s], max_tries[s])]
    /\ res' = [res EXCEPT ![s] = ExceptRes("OpenError", error[s], tries[s], max_tries[s])]
    /\ blockRuns' = [blockRuns EXCEPT ![s] =
                        IF ExceptPc("OpenError", error[s], tries[s], max_tries[s]) = "block"
                        THEN @ + 1 ELSE @]
    /\ UNCHANGED <<osVars, cfgVars, lock, ret,
                   closeRuns, userCloses, funcRuns, closedOnce, noopCloses>>

\* LockFile.__init__, lines 26 and 30-33: the flock is granted; the loop of
\* lockfile() ends and lines 88-91 yield the lock.
FlockOk(s) ==
    /\ pc[s] = "flock"
    /\ FlockGranted(s, IF shared[s] THEN _shared ELSE _exclusive)
    /\ lk' = [lk EXCEPT ![s] = IF shared[s] THEN _shared ELSE _exclusive]
    /\ lock' = [lock EXCEPT ![s] = TRUE]
    /\ pc' = [pc EXCEPT ![s] = EnterPc(error[s], TRUE)]
    /\ res' = [res EXCEPT ![s] = EnterRes(error[s], TRUE)]
    /\ blockRuns' = [blockRuns EXCEPT ![s] = IF EnterPc(error[s], TRUE) = "block" THEN @ + 1 ELSE @]
    /\ UNCHANGED <<fs, fd, cfgVars, tries, ret,
                   attempts, sleeps, closeRuns, userCloses, funcRuns, closedOnce, noopCloses>>

\* LockFile.__init__, lines 27-29: the flock is refused; f.close(), LockError.
\* lockfile(), lines 83-86: tries += 1, sleep if another attempt follows; then
\* the loop test and, past the loop, lines 88-91.
FlockFail(s) ==
    /\ pc[s] = "flock"
    /\ ~FlockGranted(s, IF shared[s] THEN _shared ELSE _exclusive)
    /\ fd' = [fd EXCEPT ![s] = CloseOnLockError(@)]
    /\ tries' = [tries EXCEPT ![s] = ExceptTries("LockError", @)]
    /\ sleeps' = [sleeps EXCEPT ![s] = @ + ExceptSleeps("LockError", tries[s], max_tries[s])]
    /\ pc' = [pc EXCEPT ![s] = ExceptPc("LockError", error[s], tries[s], max_tries[s])]
    /\ res' = [res EXCEPT ![s] = ExceptRes("LockError", error[s], tries[s], max_tries[s])]
    /\ blockRuns' = [blockRuns EXCEPT ![s] =
                        IF ExceptPc("LockError", error[s], tries[s], max_tries[s]) = "block"
                        THEN @ + 1 ELSE @]
    /\ UNCHANGED <<fs, lk, cfgVars, lock, ret,
                   attempts, closeRuns, userCloses, funcRuns, closedOnce, noopCloses>>

\* The protected block of `with lockfile(...) as lock:` ends: it completes,
\* returns early or raises; control passes to the finally clause (line 92).
BlockExit(s) ==
    /\ pc[s] = "block"
    /\ kind[s] = "with"
    /\ \E how \in {"normal", "return", "raise"} : res' = [res EXCEPT ![s] = how]
    /\ pc' = [pc EXCEPT ![s] = "finally"]
    /\ UNCHANGED <<osVars, cfgVars, tries, lock, ret, ghostVars>>

\* The protected block calls lock.close() itself on the lock it was given;
\* LockFile.close, lines 36-37 and 45.
UserClose(s) ==
    /\ pc[s] = "block"
    /\ kind[s] = "with"
    /\ lock[s]
    /\ userCloses[s] < MaxUserCloses
    /\ userCloses' = [userCloses EXCEPT ![s] = @ + 1]
    /\ ret' = [ret EXCEPT ![s] = "block"]
    /\ pc' = [pc EXCEPT ![s] = CloseBranch(fd[s] # NoIno, CleanupDefault, shared[s], AfterClose("block"))]
    /\ noopCloses' = [noopCloses EXCEPT ![s] = IF fd[s] = NoIno THEN @ + 1 ELSE @]
    /\ UNCHANGED <<osVars, cfgVars, tries, lock, res,
                   attempts, sleeps, closeRuns, blockRuns, funcRuns, closedOnce>>

\* lockfunc.wrapper, lines 136-138: return marker without a lock, otherwise
\* call func.
WrapperBody(s) ==
    /\ pc[s] = "block"
    /\ kind[s] = "func"
    /\ IF ~lock[s]
       THEN /\ res' = [res EXCEPT ![s] = Marker]
            /\ pc' = [pc EXCEPT ![s] = "finally"]
            /\ funcRuns' = funcRuns
       ELSE /\ res' = res
            /\ pc' = [pc EXCEPT ![s] = "func"]
            /\ funcRuns' = [funcRuns EXCEPT ![s] = @ + 1]
    /\ UNCHANGED <<osVars, cfgVars, tries, lock, ret,
                   attempts, sleeps, closeRuns, userCloses, blockRuns, closedOnce, noopCloses>>

\* lockfunc.wrapper, line 138: func returns its result or raises.
FuncExit(s) ==
    /\ pc[s] = "func"
    /\ \E out \in {FuncResult, "funcError"} : res' = [res EXCEPT ![s] = out]
    /\ pc' = [pc EXCEPT ![s] = "finally"]
    /\ UNCHANGED <<osVars, cfgVars, tries, lock, ret, ghostVars>>

\* lockfile(), lines 92-94: finally: if lock is not None: lock.close();
\* LockFile.close, lines 36-37 and 45.
Finally(s) ==
    /\ pc[s] = "finally"
    /\ IF FinallyCloses(lock[s])
       THEN /\ closeRuns' = [closeRuns EXCEPT ![s] = @ + 1]
            /\ ret' = [ret EXCEPT ![s] = "finally"]
            /\ pc' = [pc EXCEPT ![s] =
                        CloseBranch(fd[s] # NoIno, CleanupDefault, shared[s], AfterClose("finally"))]
       ELSE /\ closeRuns' = closeRuns
            /\ ret' = ret
            /\ pc' = [pc EXCEPT ![s] = "done"]
    /\ noopCloses' = [noopCloses EXCEPT ![s] =
                        IF FinallyCloses(lock[s]) /\ fd[s] = NoIno THEN @ + 1 ELSE @]
    /\ UNCHANGED <<osVars, cfgVars, tries, lock, res,
                   attempts, sleeps, userCloses, blockRuns, funcRuns, closedOnce>>

\* LockFile.close, lines 39-44: fcntl.flock(self._f.fileno(), _exclusive).
\* flock(2): a refused conversion may or may not have dropped the lock the
\* handle held (Linux removes the old lock first; BSD keeps it).
Upgrade(s) ==
    /\ pc[s] = "upgrade"
    /\ IF FlockGranted(s, _exclusive)
       THEN /\ lk' = [lk EXCEPT ![s] = _exclusive]
            /\ pc' = [pc EXCEPT ![s] = "remove"]
       ELSE /\ \E m \in {lk[s], Unlocked} : lk' = [lk EXCEPT ![s] = m]
            /\ pc' = [pc EXCEPT ![s] = "fclose"]
    /\ UNCHANGED <<fs, fd, cfgVars, tries, lock, ret, res, ghostVars>>

\* What a FileNotFoundError out of os.remove does to the caller of close: in
\* the finally clause it leaves lockfile(); in the block the block either
\* handles it and goes on, or lets it through to the finally clause.
RemoveRaisedPc(caller, caught) ==
    IF caller = "finally" THEN "done" ELSE IF caught THEN "block" ELSE "finally"
RemoveRaisedRes(caller, caught, old) ==
    IF caller = "finally" THEN "OSError" ELSE IF caught THEN old ELSE "raise"

\* LockFile.close, lines 44 and 46: os.remove(self.path).  The path is
\* unlinked if it names a file; otherwise os.remove raises, nothing catches it
\* inside close, and lines 49-50 are not run.
Remove(s) ==
    /\ pc[s] = "remove"
    /\ IF fs[path[s]] # NoIno
       THEN /\ fs' = [fs EXCEPT ![path[s]] = NoIno]
            /\ pc' = [pc EXCEPT ![s] = "fclose"]
            /\ res' = res
       ELSE /\ fs' = fs
            /\ \E caught \in BOOLEAN :
                /\ pc' = [pc EXCEPT ![s] = RemoveRaisedPc(ret[s], caught)]
                /\ res' = [res EXCEPT ![s] = RemoveRaisedRes(ret[s], caught, res[s])]
    /\ UNCHANGED <<fd, lk, cfgVars, tries, lock, ret, ghostVars>>

\* LockFile.close, lines 49-50: self._f.close(); self._f = None.
FClose(s) ==
    /\ pc[s] = "fclose"
    /\ fd' = [fd EXCEPT ![s] = NoIno]
    /\ lk' = [lk EXCEPT ![s] = Unlocked]
    /\ closedOnce' = [closedOnce EXCEPT ![s] = TRUE]
    /\ pc' = [pc EXCEPT ![s] = AfterClose(ret[s])]
    /\ UNCHANGED <<fs, cfgVars, tries, lock, ret, res,
                   attempts, sleeps, closeRuns, userCloses, blockRuns, funcRuns, noopCloses>>

\* A LockFile whose close raised still owns its open file (self._f, line 30);
\* once lockfile() has returned, the interpreter may at any later time
\* finalize the file object, which closes the descriptor.
Finalize(s) ==
    /\ pc[s] = "done"
    /\ fd[s] # NoIno
    /\ fd' = [fd EXCEPT ![s] = NoIno]
    /\ lk' = [lk EXCEPT ![s] = Unlocked]
    /\ UNCHANGED <<fs, pc, cfgVars, tries, lock, ret, res, ghostVars>>

\* The caller has the outcome of lockfile() / of the wrapped call and the
\* session is free to make its next call; locals start afresh (lines 75-79).
Return(s) ==
    /\ pc[s] = "done"
    /\ fd[s] = NoIno
    /\ pc' = [pc EXCEPT ![s] = "idle"]
    /\ kind' = [kind EXCEPT ![s] = "with"]
    /\ shared' = [shared EXCEPT ![s] = FALSE]
    /\ max_tries' = [max_tries EXCEPT ![s] = 1]
    /\ error' = [error EXCEPT ![s] = None]
    /\ path' = [path EXCEPT ![s] = None]
    /\ tries' = [tries EXCEPT ![s] = 1]
    /\ lock' = [lock EXCEPT ![s] = FALSE]
    /\ ret' = [ret EXCEPT ![s] = "finally"]
    /\ res' = [res EXCEPT ![s] = "pending"]
    /\ attempts' = [attempts EXCEPT ![s] = 0]
    /\ sleeps' = [sleeps EXCEPT ![s] = 0]
    /\ closeRuns' = [closeRuns EXCEPT ![s] = 0]
    /\ userCloses' = [userCloses EXCEPT ![s] = 0]
    /\ blockRuns' = [blockRuns EXCEPT ![s] = 0]
    /\ funcRuns' = [funcRuns EXCEPT ![s] = 0]
    /\ closedOnce' = [closedOnce EXCEPT ![s] = FALSE]
    /\ noopCloses' = [noopCloses EXCEPT ![s] = 0]
    /\ UNCHANGED osVars

Next ==
    \E s \in Sessions :
        \/ Call(s)
        \/ Open(s)
        \/ OpenFail(s)
        \/ FlockOk(s)
        \/ FlockFail(s)
        \/ BlockExit(s)
        \/ UserClose(s)
        \/ WrapperBody(s)
        \/ FuncExit(s)
        \/ Finally(s)
        \/ Upgrade(s)
        \/ Remove(s)
        \/ FClose(s)
        \/ Finalize(s)
        \/ Return(s)

Spec == Init /\ [][Next]_vars

\* lockfile, lines 80-86: a started retry loop keeps running; each attempt
\* (open, then flock with LOCK_NB) returns or raises, and time.sleep returns.
Attempt(s) == Open(s) \/ OpenFail(s) \/ FlockOk(s) \/ FlockFail(s)
LiveSpec == Spec /\ \A s \in Sessions : WF_vars(Attempt(s))

\* ------------------------------------------------------------- claims

InBlock(s) == pc[s] \in {"block", "func"}
PastLoop(s) == pc[s] \notin {"idle", "open", "flock"}
\* s holds a lock it acquired through lockfile() and has not begun to release.
Holder(s) == lock[s] /\ InBlock(s) /\ lk[s] # Unlocked
Others(s) == Sessions \ {s}

\* C1: mutual exclusion.  Among the locks held for one lock path by sessions
\* inside their protected block there is at most one Exclusive lock and then
\* no Shared one, or only Shared locks.
C1_MutualExclusion ==
    \A a \in Sessions : \A b \in Others(a) :
        (Holder(a) /\ Holder(b) /\ path[a] = path[b]) => ~Conflicts(lk[a], lk[b])

\* C2: lock compatibility of a single attempt (maxRetries = 0).  The attempt
\* yields no lock when it asks Exclusive while any lock is held on the path,
\* yields no lock when it asks Shared while an Exclusive lock is held, and
\* yields a lock when it asks Shared while only Shared locks are held.
C2_SingleAttempt ==
    [][\A s \in Sessions :
        (pc[s] = "flock" /\ pc'[s] # "flock" /\ max_tries[s] = 1) =>
            /\ (~shared[s] /\ \E o \in Others(s) : Holder(o) /\ path[o] = path[s])
                   => ~lock'[s]
            /\ (shared[s] /\ \E o \in Others(s) :
                                Holder(o) /\ path[o] = path[s] /\ lk[o] = _exclusive)
                   => ~lock'[s]
            /\ (shared[s] /\ (\E o \in Others(s) : Holder(o) /\ path[o] = path[s])
                          /\ (\A o \in Others(s) : lk[o] # _exclusive))
                   => lock'[s]
      ]_vars

\* The third case of C2 alone: Shared is granted whenever every lock held on
\* the path is Shared.
C2_SharedAmongShared ==
    [][\A s \in Sessions :
        (pc[s] = "flock" /\ pc'[s] # "flock" /\ shared[s]
            /\ (\A o \in Others(s) : lk[o] # _exclusive)) => lock'[s]
      ]_vars

\* C4: release never fails to the caller.  Every os.remove step of
\* LockFile.close goes on to close the handle; none raises.
C4_ReleaseNeverRaises ==
    [][\A s \in Sessions :
        (pc[s] = "remove" /\ pc'[s] # "remove") => pc'[s] = "fclose"
      ]_vars

\* C5: lock-file deletion on release.  A Shared release that finds no other
\* lock on the path goes on to delete the lock-file; a Shared release leaves
\* the lock-file in place while another Shared holder remains; an Exclusive
\* release always deletes; after the deletion step the path names no file.
C5_DeletionOnRelease ==
    [][\A s \in Sessions :
        /\ (pc[s] = "upgrade" /\ pc'[s] # "upgrade"
                /\ \A o \in Others(s) : lk[o] = Unlocked)
               => pc'[s] = "remove"
        /\ (pc[s] = "remove" /\ pc'[s] # "remove" /\ shared[s]
                /\ \E o \in Others(s) : Holder(o) /\ path[o] = path[s] /\ lk[o] = _shared)
               => fs'[path[s]] = fs[path[s]]
        /\ ((closeRuns'[s] = closeRuns[s] + 1 \/ userCloses'[s] = userCloses[s] + 1)
                /\ ~shared[s] /\ fd[s] # NoIno)
               => pc'[s] = "remove"
        /\ (pc[s] = "remove" /\ pc'[s] # "remove") => fs'[path[s]] = NoIno
      ]_vars

\* C3: scoped release.  An invocation of lockfile() that obtained a lock
\* has run lock.close() from its finally clause exactly once when the scope
\* has exited, however the block ended, and not before the block ended; an
\* invocation that obtained no lock has performed no release at all.
C3_ScopedRelease ==
    \A s \in Sessions :
        /\ closeRuns[s] <= 1
        /\ InBlock(s) => closeRuns[s] = 0
        /\ (pc[s] = "done" /\ lock[s]) => closeRuns[s] = 1
        /\ ~lock[s] => (closeRuns[s] = 0 /\ pc[s] \notin {"upgrade", "remove", "fclose"}
                            /\ ~closedOnce[s] /\ noopCloses[s] = 0)

\* C3 witness: a scope whose block raised has exited after exactly one close.
C3_Witness ==
    \E s \in Sessions : pc[s] = "done" /\ lock[s] /\ res[s] = "raise" /\ closeRuns[s] = 1

\* The retry loop of s has ended at line 88 with lock None: the no-lock outcome.
YieldsNoLock(s) == PastLoop(s) /\ ~lock[s] /\ res[s] \notin {"LockError", "OpenError"}
\* s has made every attempt of its budget and none of them obtained the lock.
Exhausted(s) == PastLoop(s) /\ ~lock[s] /\ attempts[s] = max_tries[s]

\* C6: attempt budget.  One invocation of the retry loop makes at most
\* maxRetries + 1 attempts, makes none after a successful one, and yields the
\* no-lock outcome iff it made exactly maxRetries + 1 attempts and all of
\* them failed.
C6_AttemptBudget ==
    \A s \in Sessions :
        /\ attempts[s] <= max_tries[s]
        /\ lock[s] => (pc[s] \notin {"open", "flock"} /\ tries[s] = attempts[s])
        /\ YieldsNoLock(s) <=> Exhausted(s)

\* C7: unavailable outcome of the scoped session.  Without a lock and with an
\* error configured the error is raised and the block never runs; without a
\* lock and without an error the block runs exactly once, receiving None; with
\* a lock the block runs with it and the configured error is not raised.
C7_UnavailableOutcome ==
    \A s \in Sessions :
        /\ blockRuns[s] <= 1
        /\ res[s] = "configError" => (~lock[s] /\ Truthy(error[s]))
        /\ (Exhausted(s) /\ Truthy(error[s]))
               => (res[s] = "configError" /\ blockRuns[s] = 0)
        /\ (Exhausted(s) /\ ~Truthy(error[s]))
               => (blockRuns[s] = 1 /\ res[s] # "configError")
        /\ (PastLoop(s) /\ lock[s]) => (blockRuns[s] = 1 /\ res[s] # "configError")

\* C8: guarded call.  The wrapped function executes only while the wrapper's
\* own lock on the effective path is held; without a lock it is never invoked
\* and the call returns the marker, or raises the configured error; with the
\* lock the call returns the function's result (or what the function raised).
C8_GuardedCall ==
    \A s \in Sessions : kind[s] = "func" =>
        /\ pc[s] = "func" =>
              (lock[s] /\ fd[s] # NoIno /\ path[s] = LockPathOf(ResourcePath)
                 /\ lk[s] = (IF shared[s] THEN _shared ELSE _exclusive))
        /\ ~lock[s] => funcRuns[s] = 0
        /\ (pc[s] = "done" /\ ~lock[s])
               => res[s] = (IF Truthy(error[s]) THEN "configError" ELSE Marker)
        /\ (pc[s] = "done" /\ lock[s])
               => (funcRuns[s] = 1 /\ res[s] \in {FuncResult, "funcError"})

\* C9: release frees the path.  An attempt made when no other handle holds a
\* lock on the path succeeds, and no lock survives a completed release or a
\* completed guarded call.
C9_ReleaseFreesPath ==
    [][\A s \in Sessions :
        /\ (pc[s] = "flock" /\ pc'[s] # "flock"
                /\ \A o \in Others(s) : lk[o] = Unlocked) => lock'[s]
        /\ pc'[s] = "done" => (fd'[s] = NoIno /\ lk'[s] = Unlocked)
      ]_vars

\* C10: idempotent release.  A LockFile.close call on a lock whose release
\* has completed changes neither the directory nor any handle or lock, raises
\* nothing and returns at once; no lock is closed or deleted a second time.
C10_IdempotentClose ==
    [][\A s \in Sessions :
        /\ ((closeRuns'[s] = closeRuns[s] + 1 \/ userCloses'[s] = userCloses[s] + 1)
                /\ closedOnce[s])
              => /\ fs' = fs /\ fd' = fd /\ lk' = lk /\ res' = res
                 /\ pc'[s] = (IF closeRuns'[s] = closeRuns[s] + 1 THEN "done" ELSE "block")
        /\ closedOnce[s] => pc'[s] \notin {"upgrade", "remove", "fclose"}
      ]_vars

\* C10 witness: a second close found the lock released and left in place the
\* lock-file another session had created at the path in the meantime.
C10_Witness ==
    \E s \in Sessions :
        /\ pc[s] = "done" /\ closedOnce[s] /\ noopCloses[s] = 1
        /\ fs[path[s]] # NoIno

\* No session holds a lock or an open handle, and none is in the middle of an
\* acquisition or a release.
Quiescent ==
    \A s \in Sessions :
        /\ fd[s] = NoIno /\ lk[s] = Unlocked
        /\ pc[s] \in {"idle", "done"} \/ (pc[s] \in {"block", "finally"} /\ ~lock[s])

\* C11: no stale lock-file.  Whenever no session holds a lock on P and none
\* is in the middle of an acquisition or release, the lock-file of P does not
\* exist.
C11_NoStaleLockFile ==
    Quiescent => fs[LockPathOf(ResourcePath)] = NoIno

\* C12: failure containment of acquisition.  No error of a failed acquisition
\* attempt leaves lockfile() or a wrapped call: the only acquisition-related
\* error the caller sees is the configured one, and only after the whole
\* retry budget was used up without a lock.
C12_FailureContainment ==
    \A s \in Sessions :
        /\ res[s] \notin {"LockError", "OpenError"}
        /\ res[s] = "configError" =>
              (~lock[s] /\ attempts[s] = max_tries[s] /\ tries[s] = max_tries[s] + 1)

\* The part of C12 about LockError alone: the error of a refused flock never
\* reaches the caller, and the configured error comes only after exhaustion.
C12_LockErrorContained ==
    \A s \in Sessions :
        /\ res[s] # "LockError"
        /\ res[s] = "configError" =>
              (~lock[s] /\ attempts[s] = max_tries[s] /\ tries[s] = max_tries[s] + 1)

\* The invocation of s was not cut short by an error of open().
OpenedAll(s) == res[s] # "OpenError"

\* C6 and C7 restricted to invocations whose every open() succeeded.
C6_WhenOpenSucceeds ==
    \A s \in Sessions :
        /\ attempts[s] <= max_tries[s]
        /\ lock[s] => (pc[s] \notin {"open", "flock"} /\ tries[s] = attempts[s])
        /\ OpenedAll(s) => (YieldsNoLock(s) <=> Exhausted(s))
        /\ YieldsNoLock(s) => tries[s] - 1 = attempts[s]
C7_WhenOpenSucceeds ==
    \A s \in Sessions :
        /\ blockRuns[s] <= 1
        /\ res[s] = "configError" => (~lock[s] /\ Truthy(error[s]))
        /\ (Exhausted(s) /\ OpenedAll(s) /\ Truthy(error[s]))
               => (res[s] = "configError" /\ blockRuns[s] = 0)
        /\ (Exhausted(s) /\ OpenedAll(s) /\ ~Truthy(error[s]))
               => (blockRuns[s] = 1 /\ res[s] # "configError")
        /\ (PastLoop(s) /\ lock[s]) => (blockRuns[s] = 1 /\ res[s] # "configError")

\* C13: sleep placement.  A sleep occurs only in the step of a failed attempt
\* that is followed by another attempt, never after a successful attempt or
\* after the last failed attempt of the budget: an invocation about to start
\* attempt k + 1 has slept k times, one that is in or past its k-th attempt has
\* slept k - 1 times, and one with maxRetries = 0 never sleeps.
C13_SleepPlacement ==
    \A s \in Sessions :
        /\ pc[s] = "open" => sleeps[s] = attempts[s]
        /\ (pc[s] = "flock" \/ (PastLoop(s) /\ attempts[s] > 0))
              => sleeps[s] = attempts[s] - 1
        /\ max_tries[s] = 1 => sleeps[s] = 0
C13_Witness ==
    \E s \in Sessions :
        /\ PastLoop(s) /\ attempts[s] = 2 /\ sleeps[s] = 1
        /\ \E o \in Others(s) : PastLoop(o) /\ ~lock[o] /\ max_tries[o] = 1
                                   /\ attempts[o] = 1 /\ sleeps[o] = 0

\* s is inside a LockFile.close call that found its handle open.
InClose(s) == pc[s] \in {"upgrade", "remove", "fclose"}

\* C14: release ordering and closure.  In every LockFile.close on a held
\* lock the deletion of the lock-file, if any, happens while the handle is
\* still open, and in whatever way close finishes (upgrade granted or refused,
\* deletion done or failed) the handle is closed and its lock released.
C14_ReleaseOrderingAndClosure ==
    [][\A s \in Sessions :
        /\ (pc[s] = "remove" /\ pc'[s] # "remove" /\ fs'[path[s]] # fs[path[s]])
              => (fd[s] # NoIno /\ fd'[s] # NoIno /\ pc'[s] = "fclose")
        /\ (InClose(s) /\ ~InClose(s)')
              => (fd'[s] = NoIno /\ lk'[s] = Unlocked)
      ]_vars

\* The ordering half of C14 alone, and closure on every exit of close other
\* than an exception from os.remove.
C14_OrderingAndNormalClosure ==
    [][\A s \in Sessions :
        /\ (pc[s] = "remove" /\ pc'[s] # "remove" /\ fs'[path[s]] # fs[path[s]])
              => (fd[s] # NoIno /\ fd'[s] # NoIno /\ pc'[s] = "fclose")
        /\ (InClose(s) /\ ~InClose(s)' /\ pc[s] # "remove")
              => (fd'[s] = NoIno /\ lk'[s] = Unlocked)
      ]_vars

\* C15: no handle leak on failed acquisition.  A construction whose flock is
\* refused leaves the session with no open handle and no lock and changes no
\* other session's handle or lock; hence a session between attempts, or past
\* the loop without a lock, has no handle open on the lock-file.
C15_NoHandleLeakOnFailure ==
    [][\A s \in Sessions :
        /\ (pc[s] = "flock" /\ pc'[s] # "flock" /\ ~lock'[s])
              => /\ fd'[s] = NoIno /\ lk'[s] = Unlocked
                 /\ \A o \in Others(s) : fd'[o] = fd[o] /\ lk'[o] = lk[o]
        /\ (pc'[s] = "open" \/ (PastLoop(s)' /\ ~lock'[s]))
              => (fd'[s] = NoIno /\ lk'[s] = Unlocked)
      ]_vars
C15_Witness ==
    \E s \in Sessions :
        /\ pc[s] = "block" /\ ~lock[s] /\ attempts[s] = 2 /\ fd[s] = NoIno
        /\ \E o \in Others(s) : Holder(o) /\ fd[o] # NoIno /\ fs[path[s]] = fd[o]

\* C16: release deletes only its own lock-file.  Whenever a release unlinks
\* the lock path, the file the path named is the one the releasing handle is
\* open on and holds its lock on, and no other session holds a lock on that
\* file.
C16_DeletesOnlyOwnLockFile ==
    [][\A s \in Sessions :
        (pc[s] = "remove" /\ pc'[s] # "remove" /\ fs'[path[s]] # fs[path[s]])
           => /\ fs[path[s]] = fd[s] /\ lk[s] # Unlocked
              /\ \A o \in Others(s) : ~(fd[o] = fs[path[s]] /\ lk[o] # Unlocked)
      ]_vars

\* C17: retention while held.  For every lock that was acquired and whose
\* release has not begun, the lock path exists and names the file the lock's
\* handle is open on.
C17_RetentionWhileHeld ==
    \A s \in Sessions :
        (Holder(s) /\ userCloses[s] = 0)
           => (fd[s] # NoIno /\ fs[path[s]] = fd[s])

\* C18: bounded acquisition terminates.  An invocation whose retry loop has
\* ended has either entered the protected block (with the lock or with None)
\* or raised the configured error, and the loop ended by success or by
\* exhaustion of the attempt budget.
C18_BoundedAcquisition ==
    \A s \in Sessions :
        PastLoop(s) =>
            /\ blockRuns[s] = 1 \/ res[s] = "configError"
            /\ lock[s] \/ Exhausted(s)

\* The termination half of C18: a started retry loop ends, whatever the
\* other sessions do.
C18_LoopTerminates ==
    \A s \in Sessions : (pc[s] \in {"open", "flock"}) ~> PastLoop(s)

\* The safety half of C18 for invocations whose every open() succeeded.
C18_WhenOpenSucceeds ==
    \A s \in Sessions :
        (PastLoop(s) /\ OpenedAll(s)) =>
            /\ blockRuns[s] = 1 \/ res[s] = "configError"
            /\ lock[s] \/ Exhausted(s)

\* C19: the lock artifact is separate from the resource.  No step of an
\* acquisition or release creates, deletes or replaces the file at the
\* protected path P, no handle is ever open (so no lock is ever held) on the
\* file P names, every path a session works on is some p + ".lock", and the
\* only directory entry that ever changes is P + ".lock", changed by a session
\* working on that path.
C19_LockArtifactSeparate ==
    [][/\ fs'[ResourcePath] = fs[ResourcePath]
       /\ \A s \in Sessions :
            /\ fd'[s] # NoIno => fd'[s] # fs'[ResourcePath]
            /\ pc'[s] # "idle" =>
                  path'[s] \in {ResourcePath \o ".lock", UnopenablePath \o ".lock"}
       /\ \A n \in DOMAIN fs :
            fs'[n] # fs[n] =>
               /\ n = ResourcePath \o ".lock"
               /\ \E s \in Sessions : pc[s] \in {"open", "remove"} /\ path[s] = n
      ]_vars
C19_Witness ==
    /\ fs[ResourcePath] = ResourceIno
    /\ \E s \in Sessions :
        /\ Holder(s) /\ fd[s] = fs[LockPathOf(ResourcePath)]
        /\ \E o \in Others(s) : pc[o] = "done" /\ closedOnce[o] /\ res[o] = FuncResult

====
